---- MODULE Spec2Model ----
(***************************************************************************)
(* Model of scrapy/cmdline.py (command discovery, command-name resolution, *)
(* the execute lifecycle) and scrapy/utils/engine.py (get_engine_status).  *)
(***************************************************************************)
EXTENDS Integers, Sequences, FiniteSets, TLC

VARIABLES
    pc,           \* position of the running function
    argv,         \* the list object execute() received
    inproject,    \* inside_project()
    builtin,      \* objects found under scrapy.commands, in scan order
    eps,          \* entry points of group scrapy.commands, in iteration order
    cmds_module,  \* settings["COMMANDS_MODULE"] is set
    project,      \* objects found under COMMANDS_MODULE, in scan order
    cmds,         \* the registry: command name -> instance
    cmdname,      \* value returned by _pop_command_name
    tokens,       \* the list object handed to _pop_command_name
    parsed,       \* the list handed to parser.parse_known_args
    opts,         \* the parsed options
    args,         \* the tokens the parser left over
    cmd,          \* attributes of the selected command object
    settings,     \* default_settings applied to the settings object, by command
    trace,        \* lifecycle steps performed so far, in order
    out,          \* what was printed, in order
    listed,       \* command names shown by _print_commands
    attempts,     \* _get_user_input's attempts counter
    exit_code,    \* status passed to sys.exit, NoInt while running
    raised,       \* exception that left execute, None if none did
    stats,        \* path profiling statistics were dumped to, None if none
    fault,        \* the usage fault a lifecycle step raised, and the step
    engine,       \* the engine graph: subsystem -> "ok" or "none"
    probe,        \* position of get_engine_status's loop in tests
    checks,       \* get_engine_status's list of (test, result) rows
    run_saw,      \* cmd.retry_limit as run found it, NoAttr if it found none
    now,          \* the clock time() reads
    first,        \* the list the previous call of get_engine_status returned
    calls,        \* calls of get_engine_status made so far
    mutations     \* writes other components made to the engine graph

envVars == <<argv, inproject, builtin, eps, cmds_module, project>>
runVars == <<opts, args, cmd, settings, trace, out, listed, attempts,
             exit_code, raised, stats, fault, run_saw>>
engVars == <<engine, probe, checks, now, first, calls, mutations>>
vars == <<pc, envVars, cmds, cmdname, tokens, parsed, runVars, engVars>>

\* ------------------------------------------------------------------ bounds
MaxTokens == 3       \* tokens in a list handed to _pop_command_name on its own
MaxClasses == 2      \* objects one discovery source holds (registry alone)
MaxArgs == 2         \* argument tokens of one invocation of execute
MaxExecClasses == 1  \* objects one discovery source holds (execute)
MaxDispatchArgs == 3 \* argument tokens of one invocation (dispatch alone)
MaxClock == 2        \* instants the clock advances through
MaxCalls == 2        \* calls of get_engine_status on one graph
MaxMutations == 2    \* writes to the graph during one snapshot

\* ------------------------------------------------------------- Python data
\* Python's None where a string is expected.
None == "<None>"
\* Python's None where an integer is expected.
NoInt == -1

\* The characters of each string the model uses.
Chars(s) ==
    CASE s = ""                -> <<>>
      [] s = "-"               -> <<"-">>
      [] s = "-v"              -> <<"-", "v">>
      [] s = "-:x"             -> <<"-", ":", "x">>
      [] s = "crawl"           -> <<"c", "r", "a", "w", "l">>
      [] s = "bench"           -> <<"b", "e", "n", "c", "h">>
      [] s = "myspider"        -> <<"m", "y", "s", "p", "i", "d", "e", "r">>
      [] s = "--profile=out"   -> <<"-", "-", "p", "=", "o">>
      [] s = "--retry-limit=3" -> <<"-", "-", "r", "=", "3">>
      [] s = "--retry-limit=0" -> <<"-", "-", "r", "=", "0">>

\* str.startswith
startswith(s, prefix) ==
    LET c == Chars(s)
        p == Chars(prefix)
    IN  Len(c) >= Len(p) /\ SubSeq(c, 1, Len(p)) = p

\* pop that returns the element and forgets to remove it.
pop_keep(l, i) == [ret |-> l[i], list |-> l]

\* list.pop(i), with i counted from 1: the element and the remaining list.
pop(l, i) ==
    [ret  |-> l[i],
     list |-> SubSeq(l, 1, i - 1) \o SubSeq(l, i + 1, Len(l))]

\* The loop of _pop_command_name from position i on.
RECURSIVE PopScan(_, _)
PopScan(l, i) ==
    IF i > Len(l) THEN [ret |-> None, list |-> l]
    ELSE IF startswith(l[i], "-") THEN PopScan(l, i + 1)
    ELSE pop(l, i)

_pop_command_name(l) == PopScan(l, 1)

\* All sequences over S of length at most n.
SeqsUpTo(S, n) == UNION {[1..k -> S] : k \in 0..n}


\* ------------------------------------------------------- command discovery
\* str.split(".")[-1] of the module names the model uses.
LastSegment(m) ==
    CASE m = "scrapy.commands"       -> "commands"
      [] m = "scrapy.commands.crawl" -> "crawl"
      [] m = "scrapy.commands.bench" -> "bench"
      [] m = "proj.commands"         -> "commands"
      [] m = "proj.commands.crawl"   -> "crawl"
      [] m = "proj.commands.bench"   -> "bench"

\* An object found in a module's namespace: kind is "command" (a proper
\* subclass of ScrapyCommand), one of the two base types, or "function" (not a
\* class); module is the module being walked, defmodule is obj.__module__.
Obj(kind, module, defmodule, rp, ra) ==
    [kind |-> kind, module |-> module, defmodule |-> defmodule,
     requires_project |-> rp, retry_attr |-> ra]

isclass(o) == o.kind # "function"

issubclass_ScrapyCommand(o) ==
    o.kind \in {"command", "ScrapyCommand", "BaseRunSpiderCommand"}

\* The condition under which _iter_command_classes yields obj.
IterYields(o) ==
    /\ isclass(o)
    /\ issubclass_ScrapyCommand(o)
    /\ o.defmodule = o.module
    /\ o.kind \notin {"ScrapyCommand", "BaseRunSpiderCommand"}

\* cmd(): a fresh instance, identified by the source and position of its class.
Instance(o, src, i) ==
    [src |-> src, idx |-> i, kind |-> o.kind,
     requires_project |-> o.requires_project, retry_attr |-> o.retry_attr]

EmptyDict == [k \in {} |-> None]

\* d[k] = v
DictSet(d, k, v) == [x \in DOMAIN d \cup {k} |-> IF x = k THEN v ELSE d[x]]

\* update that keeps the entries d already has.
DictUpdate_keep(d, e) ==
    [x \in DOMAIN d \cup DOMAIN e |-> IF x \in DOMAIN d THEN d[x] ELSE e[x]]

\* d.update(e)
DictUpdate(d, e) ==
    [x \in DOMAIN d \cup DOMAIN e |-> IF x \in DOMAIN e THEN e[x] ELSE d[x]]

\* The loop of _get_commands_from_module from object i on.
RECURSIVE ModuleLoop(_, _, _, _, _)
ModuleLoop(objs, src, inproj, i, d) ==
    IF i > Len(objs) THEN d
    ELSE LET o == objs[i]
         IN  IF IterYields(o) /\ (inproj \/ ~o.requires_project)
             THEN ModuleLoop(objs, src, inproj, i + 1,
                             DictSet(d, LastSegment(o.defmodule), Instance(o, src, i)))
             ELSE ModuleLoop(objs, src, inproj, i + 1, d)

\* _get_commands_from_module without the requires_project filter.
_get_commands_from_module_all(objs, src, inproj) ==
    ModuleLoop(objs, src, TRUE, 1, EmptyDict)

_get_commands_from_module(objs, src, inproj) ==
    ModuleLoop(objs, src, inproj, 1, EmptyDict)

\* An entry point: its declared name and the object load() returns.
EntryPoint(name, o) == [name |-> name, obj |-> o]

\* The loop of _get_commands_from_entry_points from entry i on; raised tells
\* that the loop ended in `raise Exception("Invalid entry point ...")`.
RECURSIVE EntryLoop(_, _, _)
EntryLoop(es, i, d) ==
    IF i > Len(es) THEN [raised |-> FALSE, d |-> d]
    ELSE IF isclass(es[i].obj)
         THEN EntryLoop(es, i + 1, DictSet(d, es[i].name, Instance(es[i].obj, 2, i)))
         ELSE [raised |-> TRUE, d |-> d]

\* A loader that drops the entries that are not classes.
_get_commands_from_entry_points_skip(es, inproj) ==
    [raised |-> FALSE, d |-> EntryLoop(es, 1, EmptyDict).d]

_get_commands_from_entry_points(es, inproj) == EntryLoop(es, 1, EmptyDict)

\* _get_commands_dict: the merged registry, or the exception of source 2.
_get_commands_dict(b, es, cm, p, inproj) ==
    LET d1 == _get_commands_from_module(b, 1, inproj)
        r2 == _get_commands_from_entry_points(es, inproj)
        d2 == DictUpdate(d1, r2.d)
    IN  IF r2.raised THEN [raised |-> TRUE, d |-> EmptyDict]
        ELSE IF cm THEN [raised |-> FALSE,
                         d |-> DictUpdate(d2, _get_commands_from_module(p, 3, inproj))]
        ELSE [raised |-> FALSE, d |-> d2]


\* ------------------------------------------------------------- the parser
\* Truth value of a string-or-None and of an int-or-None.
TruthyStr(v) == v # None /\ v # ""
TruthyInt(n) == n # NoInt /\ n # 0

\* The value of a token that is the profiling option, None for other tokens.
ProfileOf(t) == IF t = "--profile=out" THEN "out" ELSE None

\* The value of a token that is the retry-limit option, NoInt for others.
RetryLimitOf(t) ==
    CASE t = "--retry-limit=3" -> 3
      [] t = "--retry-limit=0" -> 0
      [] OTHER -> NoInt

\* parse_known_args from token i on: recognised options go to the namespace,
\* every other token is left over, in order.
RECURSIVE ParseLoop(_, _, _, _)
ParseLoop(l, i, o, a) ==
    IF i > Len(l) THEN [opts |-> o, args |-> a]
    ELSE IF ProfileOf(l[i]) # None
         THEN ParseLoop(l, i + 1, [o EXCEPT !.profile = ProfileOf(l[i])], a)
    ELSE IF RetryLimitOf(l[i]) # NoInt
         THEN ParseLoop(l, i + 1, [o EXCEPT !.retry_limit = RetryLimitOf(l[i])], a)
    ELSE ParseLoop(l, i + 1, o, Append(a, l[i]))

NoOpts == [profile |-> None, retry_limit |-> NoInt]

parse_known_args(l) == ParseLoop(l, 1, NoOpts, <<>>)

\* --------------------------------------------------------- usage faults
\* UsageError(msg, print_help=...)
UsageErrors == [msg : {"", "bad arg"}, print_help : BOOLEAN]

\* No usage fault was raised.
NoFault == [at |-> None, msg |-> "", print_help |-> FALSE]

\* Fault e, raised by lifecycle step `at`.
FaultAt(at, e) == [at |-> at, msg |-> e.msg, print_help |-> e.print_help]

\* argparse's parser.error(message): prints the message and exits with 2.
parser_error(o, msg) ==
    [out |-> Append(o, <<"error", msg>>), exited |-> TRUE, code |-> 2]

\* _run_print_help with its sys.exit(2) inside the print_help branch.
_run_print_help_exit_in_if(o, e) ==
    LET r == IF TruthyStr(e.msg) THEN parser_error(o, e.msg)
             ELSE [out |-> o, exited |-> FALSE, code |-> NoInt]
    IN  IF r.exited THEN r
        ELSE IF e.print_help
             THEN [out |-> Append(r.out, <<"help">>), exited |-> TRUE, code |-> 2]
             ELSE [out |-> r.out, exited |-> FALSE, code |-> NoInt]

\* The except branch of _run_print_help for fault e, printing after o.
_run_print_help(o, e) ==
    LET r == IF TruthyStr(e.msg) THEN parser_error(o, e.msg)
             ELSE [out |-> o, exited |-> FALSE, code |-> NoInt]
    IN  IF r.exited THEN r
        ELSE [out    |-> IF e.print_help THEN Append(r.out, <<"help">>) ELSE r.out,
              exited |-> TRUE,
              code   |-> 2]

\* ------------------------------------------------------ the command object
\* hasattr(cmd, "retry_limit") is false
NoAttr == -2

\* Attributes of an instance nobody has touched yet.
FreshCmd(inst) ==
    [settings |-> FALSE, crawler_process |-> FALSE, exitcode |-> 0,
     retry_limit |-> IF inst.retry_attr THEN 1 ELSE NoAttr]

NoCmd == [settings |-> FALSE, crawler_process |-> FALSE, exitcode |-> 0,
          retry_limit |-> NoAttr]

hasattr_retry_limit(c) == c.retry_limit # NoAttr

\* Exit codes a command's run may store in cmd.exitcode; NoInt: it stores none.
RunExitCodes == {NoInt, 1, 3}

\* ------------------------------------------------------------ user input
MAX_ATTEMPTS == 3

InputLines == {"6 3", "1 0", "abc", "7", "1 2 3", ""}

\* str.split() of the lines the model uses.
split(line) ==
    CASE line = "6 3"   -> <<"6", "3">>
      [] line = "1 0"   -> <<"1", "0">>
      [] line = "abc"   -> <<"abc">>
      [] line = "7"     -> <<"7">>
      [] line = "1 2 3" -> <<"1", "2", "3">>
      [] line = ""      -> <<>>

\* float(s) succeeds
IsFloat(s) == s \in {"0", "1", "2", "3", "6", "7"}

\* `x, y = map(float, user_input.split())` raises ValueError
UnpackFails(line) ==
    \/ Len(split(line)) # 2
    \/ \E i \in 1..Len(split(line)) : ~IsFloat(split(line)[i])

\* cmd.process_calculation(cmd.divide, x, y) raises ValueError
CalculationFails(line) == split(line)[2] = "0"


\* ------------------------------------------------------ get_engine_status
\* Subsystems of the engine graph the probes walk through.
Subsystems == {"start_time", "downloader", "scraper", "spider", "slot",
               "scheduler", "scraper_slot"}

\* A probe: its text, the global names it loads before the engine is touched,
\* and the chain of subsystems it walks from the engine to its last attribute.
Probe(text, names, chain) == [text |-> text, names |-> names, chain |-> chain]

\* The list `tests`.
tests ==
    << Probe("time()-engine.start_time", <<"time">>, <<>>),
       Probe("len(engine.downloader.active)", <<"len">>, <<"downloader">>),
       Probe("engine.scraper.is_idle()", <<>>, <<"scraper">>),
       Probe("engine.spider.name", <<>>, <<"spider">>),
       Probe("engine.spider_is_idle()", <<>>, <<>>),
       Probe("engine.slot.closing", <<>>, <<"slot">>),
       Probe("len(engine.slot.inprogress)", <<"len">>, <<"slot">>),
       Probe("len(engine.slot.scheduler.dqs or [])", <<"len">>, <<"slot", "scheduler">>),
       Probe("len(engine.slot.scheduler.mqs)", <<"len">>, <<"slot", "scheduler">>),
       Probe("len(engine.scraper.slot.queue)", <<"len">>, <<"scraper", "scraper_slot">>),
       Probe("len(engine.scraper.slot.active)", <<"len">>, <<"scraper", "scraper_slot">>),
       Probe("engine.scraper.slot.active_size", <<>>, <<"scraper", "scraper_slot">>),
       Probe("engine.scraper.slot.itemproc_size", <<>>, <<"scraper", "scraper_slot">>),
       Probe("engine.scraper.slot.needs_backout()", <<>>, <<"scraper", "scraper_slot">>) >>

\* The scope of a module that also binds time.
ScopeNames_time_imported == {"engine", "TYPE_CHECKING", "Any", "List", "Tuple",
                             "get_engine_status", "format_engine_status",
                             "print_engine_status", "len", "time"}

\* Names eval() resolves inside get_engine_status: the parameter, the names
\* the module binds, and the builtins.
ScopeNames == {"engine", "TYPE_CHECKING", "Any", "List", "Tuple",
               "get_engine_status", "format_engine_status",
               "print_engine_status", "len"}

\* The exception eval(test) raises against graph g, None if it returns: an
\* unbound name, an attribute read on a subsystem that is None, or the
\* subtraction of a start_time that is None.
Fault(p, g) ==
    IF \E i \in 1..Len(p.names) : p.names[i] \notin ScopeNames THEN "NameError"
    ELSE IF \E i \in 1..Len(p.chain) : g[p.chain[i]] = "none" THEN "AttributeError"
    ELSE IF p.text = "time()-engine.start_time" /\ g["start_time"] = "none"
         THEN "TypeError"
    ELSE None

\* What eval(test) returns at clock t: the elapsed-time probe reads the clock
\* (start_time is the clock's origin), every other probe reads the graph only.
Value(p, t) ==
    <<"value", p.text, IF p.text = "time()-engine.start_time" THEN t ELSE 0>>

\* The try branch: the row of a probe that returned a value.
OnValue(c, p, t) == Append(c, <<p.text, Value(p, t)>>)

\* An except branch that records nothing.
OnException_skip(c, p, kind) == c

\* The except branch: the row f"{type(e).__name__} (exception)".
OnException(c, p, kind) == Append(c, <<p.text, <<kind, "(exception)">>>>)

\* One pass of the loop body for probe p.
EvalProbe(c, p, g, t) ==
    IF Fault(p, g) = None THEN OnValue(c, p, t) ELSE OnException(c, p, Fault(p, g))

\* A loop whose handler catches AttributeError only: any other exception
\* leaves the function.
GetEngineStatusStep_narrow_except ==
    /\ pc = "status"
    /\ probe <= Len(tests)
    /\ IF Fault(tests[probe], engine) \in {None, "AttributeError"}
       THEN /\ checks' = EvalProbe(checks, tests[probe], engine, now)
            /\ probe' = probe + 1
            /\ pc' = IF probe = Len(tests) THEN "returned" ELSE "status"
            /\ raised' = raised
       ELSE /\ pc' = "raised"
            /\ raised' = Fault(tests[probe], engine)
            /\ UNCHANGED <<checks, probe>>
    /\ UNCHANGED <<engine, now, first, calls, mutations, envVars, cmds, cmdname,
                   tokens, parsed, opts, args, cmd, settings, trace, out, listed,
                   attempts, exit_code, stats, fault, run_saw>>

\* get_engine_status: the next probe is evaluated; after the last one the list
\* is returned.
GetEngineStatusStep ==
    /\ pc = "status"
    /\ probe <= Len(tests)
    /\ checks' = EvalProbe(checks, tests[probe], engine, now)
    /\ probe' = probe + 1
    /\ pc' = IF probe = Len(tests) THEN "returned" ELSE "status"
    /\ UNCHANGED <<engine, now, first, calls, mutations, envVars, cmds, cmdname,
                   tokens, parsed, runVars>>

\* get_engine_status is called again; the list of the call before is kept for
\* comparison.
GetEngineStatusAgain ==
    /\ pc = "returned"
    /\ calls < MaxCalls
    /\ first' = checks
    /\ checks' = <<>>
    /\ probe' = 1
    /\ calls' = calls + 1
    /\ pc' = "status"
    /\ UNCHANGED <<engine, now, mutations, envVars, cmds, cmdname, tokens, parsed,
                   runVars>>

\* Time passes: the next time() returns a later instant.
Tick ==
    /\ pc \in {"status", "returned"}
    /\ now < MaxClock
    /\ now' = now + 1
    /\ UNCHANGED <<pc, engine, probe, checks, first, calls, mutations, envVars,
                   cmds, cmdname, tokens, parsed, runVars>>

\* Another component of the running engine attaches or detaches a subsystem
\* while the snapshot is being taken.
MutateGraph ==
    /\ pc = "status"
    /\ mutations < MaxMutations
    /\ \E n \in Subsystems, v \in {"ok", "none"} :
          /\ engine[n] # v
          /\ engine' = [engine EXCEPT ![n] = v]
    /\ mutations' = mutations + 1
    /\ UNCHANGED <<pc, probe, checks, now, first, calls, envVars, cmds, cmdname,
                   tokens, parsed, runVars>>

\* ---------------------------------------------------------------- execute
\* Values of the variables an invocation has not written yet.
RunIdle ==
    /\ opts = NoOpts
    /\ args = <<>>
    /\ cmd = NoCmd
    /\ settings = <<>>
    /\ trace = <<>>
    /\ out = <<>>
    /\ listed = {}
    /\ attempts = 0
    /\ exit_code = NoInt
    /\ raised = None
    /\ stats = None
    /\ fault = NoFault
    /\ run_saw = NoAttr

\* The engine variables while no status report is taken.
EngineIdle ==
    /\ engine = [n \in Subsystems |-> "ok"]
    /\ probe = 1
    /\ checks = <<>>
    /\ now = 0
    /\ first = <<>>
    /\ calls = 0
    /\ mutations = 0

\* The environment of execute while execute is not running.
ExecIdle ==
    /\ argv = <<"scrapy">>
    /\ inproject = FALSE
    /\ builtin = <<>>
    /\ eps = <<>>
    /\ cmds_module = FALSE
    /\ project = <<>>
    /\ cmds = EmptyDict
    /\ parsed = <<>>

\* _print_header
_print_header(inproj) ==
    IF inproj THEN <<"header", "active project">> ELSE <<"header", "no active project">>

\* execute, lines 150-151: the registry is built, or the exception of an invalid
\* entry point leaves execute.
GetCommandsDict ==
    /\ pc = "start"
    /\ LET r == _get_commands_dict(builtin, eps, cmds_module, project, inproject)
       IN  IF r.raised
           THEN /\ pc' = "raised"
                /\ raised' = "Exception"
                /\ cmds' = cmds
           ELSE /\ pc' = "built"
                /\ raised' = raised
                /\ cmds' = r.d
    /\ UNCHANGED <<engVars, envVars, run_saw, fault, cmdname, tokens, parsed, opts, args, cmd, settings,
                   trace, out, listed, attempts, exit_code, stats>>

\* The first token is taken as the command name, flag or not.
Popped_first ==
    IF Tail(argv) = <<>> THEN [ret |-> None, list |-> <<>>] ELSE pop(Tail(argv), 1)

\* execute, line 152: the command name is popped from the slice argv[1:], a new
\* list; argv itself is not touched.
Popped == _pop_command_name(Tail(argv))

\* execute, lines 153-155: no command name.
PrintCommands ==
    /\ pc = "built"
    /\ ~TruthyStr(Popped.ret)
    /\ cmdname' = Popped.ret
    /\ tokens' = Popped.list
    /\ out' = out \o <<_print_header(inproject), <<"commands">>>>
                  \o (IF inproject THEN <<>> ELSE << <<"more">> >>)
    /\ listed' = DOMAIN cmds
    /\ exit_code' = 0
    /\ pc' = "exited"
    /\ UNCHANGED <<engVars, envVars, run_saw, fault, cmds, parsed, opts, args, cmd, settings, trace,
                   attempts, raised, stats>>

\* The unknown-command branch without its sys.exit(2): the lookup cmds[cmdname]
\* that follows raises KeyError.
UnknownCommand_fallthrough ==
    /\ pc = "built"
    /\ TruthyStr(Popped.ret)
    /\ Popped.ret \notin DOMAIN cmds
    /\ cmdname' = Popped.ret
    /\ tokens' = Popped.list
    /\ out' = out \o <<_print_header(inproject), <<"unknown", Popped.ret>>>>
    /\ raised' = "KeyError"
    /\ pc' = "raised"
    /\ UNCHANGED <<engVars, envVars, run_saw, fault, cmds, parsed, opts, args, cmd, settings,
                   trace, listed, attempts, exit_code, stats>>

\* execute, lines 156-158: the name is no key of the registry.
UnknownCommand ==
    /\ pc = "built"
    /\ TruthyStr(Popped.ret)
    /\ Popped.ret \notin DOMAIN cmds
    /\ cmdname' = Popped.ret
    /\ tokens' = Popped.list
    /\ out' = out \o <<_print_header(inproject), <<"unknown", Popped.ret>>>>
    /\ exit_code' = 2
    /\ pc' = "exited"
    /\ UNCHANGED <<engVars, envVars, run_saw, fault, cmds, parsed, opts, args, cmd, settings, trace,
                   listed, attempts, raised, stats>>

\* execute, lines 160-170: the command is looked up, its default settings are
\* applied, the settings are attached, its options are added and argv[1:] is
\* parsed.
PrepareCommand ==
    /\ pc = "built"
    /\ TruthyStr(Popped.ret)
    /\ Popped.ret \in DOMAIN cmds
    /\ cmdname' = Popped.ret
    /\ tokens' = Popped.list
    /\ settings' = Append(settings, [name |-> Popped.ret, priority |-> "command"])
    /\ cmd' = [FreshCmd(cmds[Popped.ret]) EXCEPT !.settings = TRUE]
    /\ parsed' = Tail(argv)
    /\ opts' = parse_known_args(Tail(argv)).opts
    /\ args' = parse_known_args(Tail(argv)).args
    /\ trace' = trace \o <<"setdict", "attach_settings", "add_options",
                           "parse_known_args">>
    /\ pc' = "parsed"
    /\ UNCHANGED <<engVars, envVars, run_saw, fault, cmds, out, listed, attempts, exit_code, raised, stats>>

\* execute, line 171: process_options returns.
ProcessOptions ==
    /\ pc = "parsed"
    /\ trace' = Append(trace, "process_options")
    /\ pc' = "validated"
    /\ UNCHANGED <<engVars, envVars, run_saw, fault, cmds, cmdname, tokens, parsed, opts, args, cmd,
                   settings, out, listed, attempts, exit_code, raised, stats>>

\* execute, line 171: process_options raises a usage fault.
ProcessOptionsUsageError ==
    /\ pc = "parsed"
    /\ \E e \in UsageErrors :
          /\ out' = _run_print_help(out, e).out
          /\ exit_code' = _run_print_help(out, e).code
          /\ fault' = FaultAt("process_options", e)
    /\ trace' = Append(trace, "process_options")
    /\ pc' = "exited"
    /\ UNCHANGED <<engVars, envVars, run_saw, cmds, cmdname, tokens, parsed, opts, args, cmd,
                   settings, listed, attempts, raised, stats>>

\* A dispatch that never profiles.
Profiled_never == FALSE

\* _run_command's test of opts.profile
Profiled == TruthyStr(opts.profile)

\* A command object that reaches run with the retry limit already copied.
CmdAtRun_copy_first ==
    [cmd EXCEPT !.crawler_process = TRUE, !.retry_limit = opts.retry_limit]

\* A command object that reaches run without a crawler process.
CmdAtRun_no_crawler ==
    IF Profiled THEN [cmd EXCEPT !.retry_limit = opts.retry_limit] ELSE cmd

\* The command object when run is entered: the crawler process is attached
\* (line 173) and, on the profiled path, the retry limit is copied (line 204).
CmdAtRun ==
    IF Profiled
    THEN [cmd EXCEPT !.crawler_process = TRUE, !.retry_limit = opts.retry_limit]
    ELSE [cmd EXCEPT !.crawler_process = TRUE]

\* What is done between process_options and the call of run.
TraceAtRun ==
    IF Profiled
    THEN trace \o <<"attach_crawler", "set_retry_limit", "profile", "run">>
    ELSE trace \o <<"attach_crawler", "run">>

OutAtRun ==
    IF Profiled THEN Append(out, <<"stderr", opts.profile>>) ELSE out

\* run's assignment to cmd.exitcode
SetExitCode(c, ec) == IF ec = NoInt THEN c ELSE [c EXCEPT !.exitcode = ec]

\* execute, lines 173-174, _run_command and _run_command_profiled: run returns.
RunCommand ==
    /\ pc = "validated"
    /\ \E ec \in RunExitCodes : cmd' = SetExitCode(CmdAtRun, ec)
    /\ run_saw' = CmdAtRun.retry_limit
    /\ out' = OutAtRun
    /\ IF Profiled
       THEN /\ trace' = IF TruthyStr(opts.profile)
                        THEN Append(TraceAtRun, "dump_stats")
                        ELSE TraceAtRun
            /\ stats' = IF TruthyStr(opts.profile) THEN opts.profile ELSE stats
            /\ pc' = "ran"
       ELSE /\ trace' = TraceAtRun
            /\ stats' = stats
            /\ pc' = IF hasattr_retry_limit(CmdAtRun) THEN "input" ELSE "ran"
    /\ attempts' = 0
    /\ UNCHANGED <<engVars, envVars, fault, cmds, cmdname, tokens, parsed, opts, args, settings,
                   listed, exit_code, raised>>

\* execute, lines 173-174: run raises a usage fault.
RunCommandUsageError ==
    /\ pc = "validated"
    /\ \E ec \in RunExitCodes : cmd' = SetExitCode(CmdAtRun, ec)
    /\ run_saw' = CmdAtRun.retry_limit
    /\ \E e \in UsageErrors :
          /\ out' = _run_print_help(OutAtRun, e).out
          /\ exit_code' = _run_print_help(OutAtRun, e).code
          /\ fault' = FaultAt("run", e)
    /\ trace' = TraceAtRun
    /\ pc' = "exited"
    /\ UNCHANGED <<engVars, envVars, cmds, cmdname, tokens, parsed, opts, args, settings,
                   listed, attempts, raised, stats>>

\* _get_user_input: input() raises ValueError or TypeError.
UserInputFault ==
    /\ pc = "input"
    /\ attempts < MAX_ATTEMPTS
    /\ attempts' = attempts + 1
    /\ IF attempts + 1 = MAX_ATTEMPTS
       THEN /\ out' = out \o << <<"Failed after attempts">>,
                                <<"Failed to get user input">> >>
            /\ pc' = "ran"
       ELSE /\ out' = Append(out, <<"Error. Try again.">>)
            /\ pc' = "input"
    /\ UNCHANGED <<engVars, envVars, run_saw, fault, cmds, cmdname, tokens, parsed, opts, args, cmd,
                   settings, trace, listed, exit_code, raised, stats>>

\* _get_user_input returns a line; _run_command, lines 189-195.
UserInputLine ==
    /\ pc = "input"
    /\ attempts < MAX_ATTEMPTS
    /\ \E line \in InputLines :
          IF UnpackFails(line)
          THEN /\ pc' = "raised"
               /\ raised' = "ValueError"
               /\ out' = out
          ELSE /\ pc' = "ran"
               /\ raised' = raised
               /\ out' = IF CalculationFails(line)
                         THEN Append(out, <<"Error">>)
                         ELSE Append(out, <<"Result">>)
    /\ UNCHANGED <<engVars, envVars, run_saw, fault, cmds, cmdname, tokens, parsed, opts, args, cmd,
                   settings, trace, listed, attempts, exit_code, stats>>

\* execute, lines 176-178.
Exit ==
    /\ pc = "ran"
    /\ IF TruthyInt(opts.retry_limit)
       THEN /\ cmd' = [cmd EXCEPT !.retry_limit = opts.retry_limit]
            /\ trace' = trace \o <<"set_retry_limit", "exit">>
       ELSE /\ cmd' = cmd
            /\ trace' = Append(trace, "exit")
    /\ exit_code' = cmd.exitcode
    /\ pc' = "exited"
    /\ UNCHANGED <<engVars, envVars, run_saw, fault, cmds, cmdname, tokens, parsed, opts, args, settings,
                   out, listed, attempts, raised, stats>>

\* ------------------------------------------------------- specifications
ExecTokens == {"crawl", "myspider", "--profile=out", "--retry-limit=3"}

\* Classes the built-in scan can find: a plain command, a project-only command
\* and a command whose class defines retry_limit.
ExecBuiltinObjs ==
    {Obj("command", "scrapy.commands.crawl", "scrapy.commands.crawl", FALSE, FALSE),
     Obj("command", "scrapy.commands.crawl", "scrapy.commands.crawl", TRUE, FALSE),
     Obj("command", "scrapy.commands.crawl", "scrapy.commands.crawl", FALSE, TRUE)}

ExecProjectObjs ==
    {Obj("command", "proj.commands.crawl", "proj.commands.crawl", FALSE, FALSE),
     Obj("command", "proj.commands.crawl", "proj.commands.crawl", TRUE, FALSE)}

ExecEntryPoints ==
    {EntryPoint("crawl", Obj("command", "ext", "ext", TRUE, FALSE)),
     EntryPoint("crawl", Obj("function", "ext", "ext", FALSE, FALSE))}

Init ==
    /\ pc = "start"
    /\ argv \in {<<"scrapy">> \o a : a \in SeqsUpTo(ExecTokens, MaxArgs)}
    /\ inproject \in BOOLEAN
    /\ builtin \in SeqsUpTo(ExecBuiltinObjs, MaxExecClasses)
    /\ eps \in SeqsUpTo(ExecEntryPoints, MaxExecClasses)
    /\ cmds_module \in BOOLEAN
    /\ project \in IF cmds_module
                   THEN SeqsUpTo(ExecProjectObjs, MaxExecClasses)
                   ELSE {<<>>}
    /\ cmds = EmptyDict
    /\ cmdname = None
    /\ tokens = <<>>
    /\ parsed = <<>>
    /\ RunIdle
    /\ EngineIdle

Next ==
    \/ GetCommandsDict
    \/ PrintCommands
    \/ UnknownCommand
    \/ PrepareCommand
    \/ ProcessOptions
    \/ ProcessOptionsUsageError
    \/ RunCommand
    \/ RunCommandUsageError
    \/ UserInputFault
    \/ UserInputLine
    \/ Exit

Spec == Init /\ [][Next]_vars


\* _pop_command_name on its own: argv keeps the list as it was handed over,
\* tokens is the list object the function works on.
PopTokens == {"", "-", "-v", "-:x", "crawl", "myspider", "bench"}

PopInit ==
    /\ pc = "pop"
    /\ tokens \in SeqsUpTo(PopTokens, MaxTokens)
    /\ argv = tokens
    /\ inproject = FALSE
    /\ builtin = <<>>
    /\ eps = <<>>
    /\ cmds_module = FALSE
    /\ project = <<>>
    /\ cmds = EmptyDict
    /\ parsed = <<>>
    /\ cmdname = None
    /\ RunIdle
    /\ EngineIdle

PopCommandName ==
    /\ pc = "pop"
    /\ cmdname' = _pop_command_name(tokens).ret
    /\ tokens' = _pop_command_name(tokens).list
    /\ pc' = "popped"
    /\ UNCHANGED <<engVars, envVars, cmds, parsed, runVars>>

PopNext == PopCommandName

SpecPop == PopInit /\ [][PopNext]_vars

\* _get_commands_dict on its own, over richer discovery sources.
RegBuiltinObjs ==
    {Obj("command", "scrapy.commands.crawl", "scrapy.commands.crawl", TRUE, FALSE),
     Obj("command", "scrapy.commands.crawl", "scrapy.commands.crawl", FALSE, FALSE),
     Obj("command", "scrapy.commands.bench", "scrapy.commands.bench", FALSE, FALSE),
     Obj("ScrapyCommand", "scrapy.commands", "scrapy.commands", FALSE, FALSE),
     Obj("BaseRunSpiderCommand", "scrapy.commands", "scrapy.commands", TRUE, FALSE)}

\* The last one is a class of proj.commands.crawl imported into
\* proj.commands.bench.
RegProjectObjs ==
    {Obj("command", "proj.commands.crawl", "proj.commands.crawl", TRUE, FALSE),
     Obj("command", "proj.commands.crawl", "proj.commands.crawl", FALSE, FALSE),
     Obj("command", "proj.commands.bench", "proj.commands.crawl", FALSE, FALSE)}

RegEntryPoints ==
    {EntryPoint("crawl", Obj("command", "ext", "ext", TRUE, FALSE)),
     EntryPoint("bench", Obj("ScrapyCommand", "scrapy.commands", "scrapy.commands", FALSE, FALSE)),
     EntryPoint("bench", Obj("function", "ext", "ext", FALSE, FALSE))}

RegInit ==
    /\ pc = "start"
    /\ argv = <<"scrapy">>
    /\ inproject \in BOOLEAN
    /\ builtin \in SeqsUpTo(RegBuiltinObjs, MaxClasses)
    /\ eps \in SeqsUpTo(RegEntryPoints, MaxClasses)
    /\ cmds_module \in BOOLEAN
    /\ project \in IF cmds_module THEN SeqsUpTo(RegProjectObjs, MaxClasses) ELSE {<<>>}
    /\ cmds = EmptyDict
    /\ cmdname = None
    /\ tokens = <<>>
    /\ parsed = <<>>
    /\ RunIdle
    /\ EngineIdle

RegNext == GetCommandsDict

\* execute with longer command lines against a registry of one built-in
\* command, whose class defines retry_limit or not.
DispatchTokens ==
    {"crawl", "myspider", "--profile=out", "--retry-limit=3", "--retry-limit=0"}

DispatchObjs ==
    {Obj("command", "scrapy.commands.crawl", "scrapy.commands.crawl", FALSE, FALSE),
     Obj("command", "scrapy.commands.crawl", "scrapy.commands.crawl", FALSE, TRUE)}

DispatchInit ==
    /\ pc = "start"
    /\ argv \in {<<"scrapy">> \o a : a \in SeqsUpTo(DispatchTokens, MaxDispatchArgs)}
    /\ inproject \in BOOLEAN
    /\ builtin \in {<<o>> : o \in DispatchObjs}
    /\ eps = <<>>
    /\ cmds_module = FALSE
    /\ project = <<>>
    /\ cmds = EmptyDict
    /\ cmdname = None
    /\ tokens = <<>>
    /\ parsed = <<>>
    /\ RunIdle
    /\ EngineIdle

SpecDispatch == DispatchInit /\ [][Next]_vars

SpecRegistry == RegInit /\ [][RegNext]_vars

\* get_engine_status on its own, against every engine graph.
EngineInit ==
    /\ pc = "status"
    /\ engine \in [Subsystems -> {"ok", "none"}]
    /\ probe = 1
    /\ checks = <<>>
    /\ now \in 0..MaxClock
    /\ first = <<>>
    /\ calls = 1
    /\ mutations = 0
    /\ ExecIdle
    /\ cmdname = None
    /\ tokens = <<>>
    /\ RunIdle

EngineNext == GetEngineStatusStep

SpecEngine == EngineInit /\ [][EngineNext]_vars

\* get_engine_status called repeatedly on a graph nobody writes to, while time
\* passes.
EngineAgainInit ==
    /\ EngineInit
    /\ now = 0

EngineAgainNext ==
    \/ GetEngineStatusStep
    \/ GetEngineStatusAgain
    \/ Tick

SpecEngineAgain == EngineAgainInit /\ [][EngineAgainNext]_vars

\* One call of get_engine_status interleaved with writes to the graph. The
\* loop is straight-line code of a running thread: it is not starved.
EngineMutatingInit ==
    /\ EngineInit
    /\ now = 0

EngineMutatingNext ==
    \/ GetEngineStatusStep
    \/ MutateGraph

SpecEngineMutating ==
    EngineMutatingInit /\ [][EngineMutatingNext]_vars /\ WF_vars(GetEngineStatusStep)


\* ----------------------------------------------------------------- claims
Range(q) == {q[i] : i \in 1..Len(q)}

Max(S) == CHOOSE x \in S : \A y \in S : y <= x

Min(S) == CHOOSE x \in S : \A y \in S : x <= y

\* The tokens of the model that begin with "-".
FlagTokens == {"-", "-v", "-:x", "--profile=out", "--retry-limit=3",
               "--retry-limit=0"}

\* Positions of the tokens of l that are no flags.
NonFlags(l) == {i \in 1..Len(l) : l[i] \notin FlagTokens}

\* l without its first token that is no flag.
WithoutFirstNonFlag(l) ==
    IF NonFlags(l) = {} THEN l
    ELSE SubSeq(l, 1, Min(NonFlags(l)) - 1) \o SubSeq(l, Min(NonFlags(l)) + 1, Len(l))

\* C1: _pop_command_name removes exactly the first token that does not start
\* with "-", returns it unchanged and keeps the other tokens in order; when
\* every token starts with "-" (or there is none) the list is unchanged and
\* None is returned.
C1_PopRemovesFirstNonFlag ==
    pc = "popped" =>
        /\ tokens = WithoutFirstNonFlag(argv)
        /\ cmdname = IF NonFlags(argv) = {} THEN None ELSE argv[Min(NonFlags(argv))]

C1_Witness ==
    /\ pc = "popped"
    /\ argv = <<"-v", "crawl", "myspider">>
    /\ cmdname = "crawl"
    /\ tokens = <<"-v", "myspider">>

\* C2: the tokens handed to the command's parser are the invocation's argument
\* tokens with the command-name token removed, the others kept in order.
C2_ParserGetsTokensWithoutName ==
    trace # <<>> => parsed = WithoutFirstNonFlag(Tail(argv))

\* Command names the discovery sources of the model can produce.
CommandNames == {"crawl", "bench", "commands"}

\* Source s as a list of objects (source 3 is scanned only when
\* COMMANDS_MODULE is set).
Scanned(s) == IF s = 1 THEN builtin ELSE IF cmds_module THEN project ELSE <<>>

\* Positions in source s of the classes that define command name n, whether
\* or not the project filter lets them through.
Defining(s, n) ==
    IF s = 2 THEN {i \in 1..Len(eps) : eps[i].name = n}
    ELSE {i \in 1..Len(Scanned(s)) :
             /\ IterYields(Scanned(s)[i])
             /\ LastSegment(Scanned(s)[i].defmodule) = n}

\* Positions in source s of the classes that contribute name n to the registry:
\* outside a project a project-only class of source 1 or 3 contributes nothing.
Contributing(s, n) ==
    IF s = 2 THEN Defining(2, n)
    ELSE {i \in Defining(s, n) : inproject \/ ~Scanned(s)[i].requires_project}

\* C3 as stated: a name defined by more than one source is mapped to the
\* instance of the last source that defines it.
C3_LastDefiningSourceWins ==
    pc = "built" =>
        \A n \in CommandNames :
            LET S == {s \in 1..3 : Defining(s, n) # {}}
            IN  Cardinality(S) > 1 =>
                    /\ n \in DOMAIN cmds
                    /\ cmds[n].src = Max(S)

\* C3 amended: every name is mapped to the instance of the last source that
\* contributes it after the in_project filter, and to nothing when no source
\* contributes it.
C3_LastContributingSourceWins ==
    pc = "built" =>
        \A n \in CommandNames :
            LET S == {s \in 1..3 : Contributing(s, n) # {}}
            IN  IF S = {} THEN n \notin DOMAIN cmds
                ELSE /\ n \in DOMAIN cmds
                     /\ cmds[n].src = Max(S)
                     /\ cmds[n].idx = Max(Contributing(Max(S), n))

C3_Witness ==
    /\ pc = "built"
    /\ Contributing(1, "crawl") # {}
    /\ Contributing(2, "crawl") # {}
    /\ Contributing(3, "crawl") # {}
    /\ cmds["crawl"].src = 3
    /\ Contributing(1, "bench") # {}
    /\ Contributing(2, "bench") # {}
    /\ Contributing(3, "bench") = {}
    /\ cmds["bench"].src = 2

\* The registry has been built in this invocation.
RegistryBuilt == pc # "start" /\ raised # "Exception"

\* The command name has been resolved in this invocation.
NameResolved == RegistryBuilt /\ pc # "built"

\* Name n is provided by sources 1 and 3 only, and only by project-only classes.
OnlyProjectOnly(n) ==
    /\ Defining(1, n) \cup Defining(3, n) # {}
    /\ Defining(2, n) = {}
    /\ \A s \in {1, 3} : \A i \in Defining(s, n) : Scanned(s)[i].requires_project

\* C4: outside a project the registry holds no project-only command of
\* sources 1 and 3; every entry point's name is registered, with an instance of
\* source 2 unless source 3 contributes the name, whatever in_project is; and a
\* name only provided as a project-only command takes the unknown-command path
\* and exits with 2.
C4_ProjectOnlyHiddenOutsideProject ==
    RegistryBuilt =>
        /\ ~inproject =>
              \A n \in DOMAIN cmds :
                  cmds[n].src \in {1, 3} => ~cmds[n].requires_project
        /\ \A i \in 1..Len(eps) :
              /\ eps[i].name \in DOMAIN cmds
              /\ cmds[eps[i].name].src = IF Contributing(3, eps[i].name) # {} THEN 3 ELSE 2
        /\ (NameResolved /\ ~inproject /\ OnlyProjectOnly(cmdname)) =>
              /\ pc = "exited"
              /\ exit_code = 2
              /\ <<"unknown", cmdname>> \in Range(out)
              /\ trace = <<>>

C4_Witness ==
    /\ pc = "exited"
    /\ ~inproject
    /\ OnlyProjectOnly(cmdname)
    /\ Defining(1, cmdname) # {}
    /\ Defining(3, cmdname) # {}
    /\ exit_code = 2

\* C5: when no argument token is a command name, execute prints the command
\* listing and exits with 0, and no add_options, process_options or run is
\* invoked.
C5_NoCommandListsAndExitsZero ==
    (NameResolved /\ NonFlags(Tail(argv)) = {}) =>
        /\ pc = "exited"
        /\ exit_code = 0
        /\ <<"commands">> \in Range(out)
        /\ listed = DOMAIN cmds
        /\ trace = <<>>
        /\ settings = <<>>

C5_Witness ==
    /\ pc = "exited"
    /\ Len(argv) = 3
    /\ NonFlags(Tail(argv)) = {}
    /\ DOMAIN cmds # {}
    /\ exit_code = 0

\* C6: when the resolved name is no key of the registry, execute prints the
\* unknown-command notice and exits with 2; no default_settings are applied and
\* no add_options, process_options or run is invoked.
C6_UnknownCommandExitsTwo ==
    (NameResolved /\ TruthyStr(cmdname) /\ cmdname \notin DOMAIN cmds) =>
        /\ pc = "exited"
        /\ exit_code = 2
        /\ <<"unknown", cmdname>> \in Range(out)
        /\ settings = <<>>
        /\ trace = <<>>

C6_Witness ==
    /\ pc = "exited"
    /\ cmdname = "myspider"
    /\ "crawl" \in DOMAIN cmds
    /\ exit_code = 2

\* What the translator printed: the parser errors and help texts in out.
Translated == SelectSeq(out, LAMBDA x : x[1] \in {"error", "help"})

\* C7: a usage fault raised by process_options or by run never leaves execute;
\* at either point it is translated by _run_print_help and the process exits
\* with 2, not with the command's exit code; after a fault of process_options
\* run is never invoked.
C7_UsageFaultExitsTwo ==
    fault.at # None =>
        /\ pc = "exited"
        /\ raised = None
        /\ exit_code = 2
        /\ Translated = _run_print_help(<<>>, fault).out
        /\ fault.at = "process_options" => "run" \notin Range(trace)

C7_Witness ==
    /\ fault.at = "run"
    /\ cmd.exitcode = 1
    /\ exit_code = 2
    /\ pc = "exited"

\* C8: for every message and help flag, a translated usage fault shows a
\* non-empty message as a parser error, prints the help text exactly when the
\* fault requests help, and exits with 2.
C8_MessageAndHelpShown ==
    fault.at # None =>
        /\ exit_code = 2
        /\ TruthyStr(fault.msg) => <<"error", fault.msg>> \in Range(out)
        /\ fault.print_help <=> <<"help">> \in Range(out)

\* C9: when process_options and run complete without a usage fault, execute
\* ends in sys.exit with the command's exitcode as run left it.
C9_ExitsWithCommandExitCode ==
    ("run" \in Range(trace) /\ fault.at = None /\ pc \in {"exited", "raised"}) =>
        /\ pc = "exited"
        /\ exit_code = cmd.exitcode

\* C10: get_engine_status keeps one row per probe, in the order of tests; the
\* row of a probe that faults reads "<fault kind> (exception)", the row of
\* every other probe holds its value, and no fault leaves the function.
C10_OneRowPerProbe ==
    /\ raised = None
    /\ pc \in {"status", "returned"} =>
          /\ Len(checks) = probe - 1
          /\ pc = "returned" <=> Len(checks) = Len(tests)
          /\ \A i \in 1..Len(checks) :
                /\ checks[i][1] = tests[i].text
                /\ checks[i][2] =
                      IF Fault(tests[i], engine) = None
                      THEN Value(tests[i], now)
                      ELSE <<Fault(tests[i], engine), "(exception)">>

C10_Witness ==
    /\ pc = "returned"
    /\ engine["spider"] = "none"
    /\ checks[4] = <<"engine.spider.name", <<"AttributeError", "(exception)">>>>
    /\ checks[3][2][1] = "value"
    /\ checks[5][2][1] = "value"

\* Some entry point of the group resolves to an object that is not a class.
InvalidEntryPoint == \E i \in 1..Len(eps) : ~isclass(eps[i].obj)

\* C11: when an entry point resolves to a non-class, building the registry
\* ends in an exception that leaves execute: no command name is resolved, no
\* lifecycle step of any command is performed and no exit status is set.
C11_InvalidEntryPointAborts ==
    (pc # "start" /\ InvalidEntryPoint) =>
        /\ pc = "raised"
        /\ raised = "Exception"
        /\ cmds = EmptyDict
        /\ cmdname = None
        /\ cmd = NoCmd
        /\ trace = <<>>
        /\ out = <<>>
        /\ exit_code = NoInt

C11_Witness ==
    /\ pc = "raised"
    /\ raised = "Exception"
    /\ InvalidEntryPoint
    /\ builtin # <<>>
    /\ Len(argv) > 1
    /\ argv[2] = "crawl"

SentinelKinds == {"ScrapyCommand", "BaseRunSpiderCommand"}

\* C13: no entry of the registry is an instance of ScrapyCommand or of
\* BaseRunSpiderCommand themselves, whichever of the three sources supplied it.
C13_NoSentinelRegistered ==
    RegistryBuilt => \A n \in DOMAIN cmds : cmds[n].kind \notin SentinelKinds

\* The interactive step was entered and has ended.
InputStepOver ==
    /\ "run" \in Range(trace)
    /\ fault.at = None
    /\ ~Profiled
    /\ hasattr_retry_limit(cmd)
    /\ pc \notin {"validated", "input"}

\* What the interactive step prints when it ends without a fault.
InputReports == {<<"Result">>, <<"Error">>, <<"Failed to get user input">>}

\* C14: whatever line the interactive step reads, no fault of that step
\* leaves execute: at most MAX_ATTEMPTS attempts are made, the outcome is
\* reported, and execute goes on to exit with the command's exitcode.
C14_MalformedInputRecovered ==
    /\ raised # "ValueError"
    /\ attempts <= MAX_ATTEMPTS
    /\ InputStepOver =>
          /\ pc \in {"ran", "exited"}
          /\ Range(out) \cap InputReports # {}
          /\ pc = "exited" => exit_code = cmd.exitcode

\* Positions of step e in the lifecycle trace.
StepsOf(e) == {i \in 1..Len(trace) : trace[i] = e}

\* C15: when the invocation supplies a retry-limit override, profiled or not,
\* run does not find that value on the command: the copy onto the command
\* comes after run in the lifecycle.
C15_RetryLimitCopiedAfterRun ==
    ("run" \in Range(trace) /\ TruthyInt(opts.retry_limit)) =>
        /\ run_saw # opts.retry_limit
        /\ \A i \in StepsOf("set_retry_limit") : \A j \in StepsOf("run") : j < i

\* C16: a dispatch that reaches the run step calls run exactly once; run is
\* inside a profiling scope exactly when a profiling destination was given,
\* and then the statistics go to that destination after run returned; without
\* a destination no statistics are written.
C16_RunOnceProfiledIffDeclared ==
    /\ Cardinality(StepsOf("run")) <= 1
    /\ stats # None => "run" \in Range(trace)
    /\ "attach_crawler" \in Range(trace) =>
          /\ Cardinality(StepsOf("run")) = 1
          /\ TruthyStr(opts.profile) <=> "profile" \in Range(trace)
          /\ \A i \in StepsOf("profile") : \A j \in StepsOf("run") : i < j
          /\ (TruthyStr(opts.profile) /\ fault.at # "run") =>
                /\ stats = opts.profile
                /\ StepsOf("dump_stats") # {}
                /\ \A i \in StepsOf("dump_stats") : \A j \in StepsOf("run") : j < i
          /\ (~TruthyStr(opts.profile) \/ fault.at = "run") =>
                /\ stats = None
                /\ StepsOf("dump_stats") = {}

C16_Witness ==
    /\ pc = "exited"
    /\ fault.at = None
    /\ opts.profile = "out"
    /\ stats = "out"
    /\ "myspider" \in Range(args)
    /\ cmd.exitcode = 3

\* The lifecycle steps every command goes through, in the order of the claim.
LifecycleOrder ==
    <<"setdict", "attach_settings", "add_options", "parse_known_args",
      "process_options", "attach_crawler", "run", "exit">>

IsLifecycleStep(e) == e \in Range(LifecycleOrder)

\* The lifecycle steps performed so far, without the steps of profiling and of
\* the retry-limit copy.
LifecycleDone == SelectSeq(trace, IsLifecycleStep)

\* C17: the selected command goes through default settings at priority
\* "command", settings attached, add_options, parsing, process_options,
\* crawler process attached, run, exit, in this order; run is entered only
\* after process_options returned without a usage fault and with the crawler
\* process attached.
C17_LifecycleOrder ==
    /\ Len(LifecycleDone) <= Len(LifecycleOrder)
    /\ LifecycleDone = SubSeq(LifecycleOrder, 1, Len(LifecycleDone))
    /\ \A i \in 1..Len(settings) :
          settings[i] = [name |-> cmdname, priority |-> "command"]
    /\ "setdict" \in Range(trace) <=> Len(settings) = 1
    /\ "attach_settings" \in Range(trace) => cmd.settings
    /\ "run" \in Range(trace) =>
          /\ fault.at # "process_options"
          /\ cmd.settings
          /\ cmd.crawler_process
    /\ (pc = "exited" /\ fault.at = None /\ cmd # NoCmd) =>
          LifecycleDone = LifecycleOrder

C17_Witness ==
    /\ pc = "exited"
    /\ fault.at = None
    /\ LifecycleDone = LifecycleOrder
    /\ Len(trace) > Len(LifecycleOrder)
    /\ cmd.crawler_process
    /\ settings = <<[name |-> "crawl", priority |-> "command"]>>

\* C19: when the class of the selected command does not define retry_limit,
\* the interactive input step is not reached in this invocation, with or
\* without profiling and whether or not a retry-limit override is copied onto
\* the command.
C19_NoRetryAttrNoInput ==
    (cmdname # None /\ cmdname \in DOMAIN cmds /\ ~cmds[cmdname].retry_attr) =>
        /\ pc # "input"
        /\ attempts = 0
        /\ raised # "ValueError"
        /\ Range(out) \cap (InputReports \cup {<<"Error. Try again.">>,
                                               <<"Failed after attempts">>}) = {}
        /\ (~Profiled /\ "run" \in Range(trace)) => run_saw = NoAttr

C19_Witness ==
    /\ pc = "exited"
    /\ fault.at = None
    /\ cmdname \in DOMAIN cmds
    /\ ~cmds[cmdname].retry_attr
    /\ ~Profiled
    /\ "run" \in Range(trace)
    /\ opts.retry_limit = 3
    /\ cmd.retry_limit = 3

\* Every subsystem of the engine graph is initialised.
FullyInitialised == \A n \in Subsystems : engine[n] = "ok"

\* C20: against a fully initialised graph every row of the report, the
\* elapsed-time row included, holds a computed value and none holds an
\* "(exception)" tag.
C20_AllRowsComputed ==
    (pc = "returned" /\ FullyInitialised) =>
        \A i \in 1..Len(checks) :
            /\ checks[i][2][1] = "value"
            /\ checks[i][2] = Value(tests[i], now)

\* The row get_engine_status owes for probe i against graph g at clock t.
RowOf(i, g, t) ==
    <<tests[i].text,
      IF Fault(tests[i], g) = None
      THEN Value(tests[i], t)
      ELSE <<Fault(tests[i], g), "(exception)">> >>

\* The rows taken so far are the rows of the first probes, in order, and no
\* fault has left the function.
C18_RowsInOrder ==
    /\ raised = None
    /\ pc \in {"status", "returned"}
    /\ Len(checks) = probe - 1
    /\ Len(checks) <= Len(tests)
    /\ \A i \in 1..Len(checks) : checks[i][1] = tests[i].text

\* A step of the loop reads the graph as it is at that moment and writes
\* nothing to it.
C18_StepReadsOnly ==
    probe' # probe =>
        /\ engine' = engine
        /\ checks' = Append(checks, RowOf(probe, engine, now))

\* C18: while another component writes to the engine graph between the probes,
\* get_engine_status still returns, with one row per probe in the order of
\* tests, each row taken from the graph as it was when the probe ran; no fault
\* leaves the function and the function writes nothing to the graph.
C18_SnapshotUnderMutation ==
    /\ []C18_RowsInOrder
    /\ [][C18_StepReadsOnly]_vars
    /\ <>(pc = "returned" /\ Len(checks) = Len(tests))

C18_Witness ==
    /\ pc = "returned"
    /\ mutations = 2
    /\ checks[6] = RowOf(6, [n \in Subsystems |-> "ok"], now)
    /\ checks[7][2] = <<"AttributeError", "(exception)">>
    /\ checks[14][2][1] = "value"
    /\ engine["slot"] = "none"

====
